---- MODULE Spec2Model ----
(***************************************************************************)
(* msppy: the probability model of a multistage stochastic program (MSLP,  *)
(* src/msppy/msp.py) and the Monte Carlo policy evaluation engine          *)
(* (_Evaluation, Evaluation, EvaluationTrue, src/msppy/evaluation.py).     *)
(*                                                                         *)
(* Python objects are records with the attribute names of the source.  An  *)
(* attribute that may be None (or absent) holds a sequence of length 0 or  *)
(* 1.  Python lists are sequences: the element of Python index i is at     *)
(* position i+1.  Floating point numbers are exact rationals [n, d]; a     *)
(* number also carries its kind, a Python float ("py") or a numpy float64  *)
(* ("np"), because the two divide by zero differently.                     *)
(***************************************************************************)
EXTENDS Integers, Sequences, FiniteSets, TLC

VARIABLES MSP, ev, call, ret

vars == <<MSP, ev, call, ret>>

(***************************************************************************)
(* Bounds of the model.                                                    *)
(***************************************************************************)
MaxT == 3
\* MSLP.__init__ rejects a program of fewer than two stages
MinT == 2
MaxSamples == 2
MaxMarkov == 2
MaxSimulations == 2
MaxProcesses == 2

(***************************************************************************)
(* Optional values.                                                        *)
(***************************************************************************)
None == <<>>

Some(x) == <<x>>

IsNone(o) == Len(o) = 0

Val(o) == o[1]

(***************************************************************************)
(* Exact rational arithmetic.                                              *)
(***************************************************************************)
Abs(x) == IF x < 0 THEN -x ELSE x

RECURSIVE GCD(_, _)
GCD(a, b) == IF b = 0 THEN a ELSE GCD(b, a % b)

Rat(n, d) ==
    LET g == GCD(Abs(n), Abs(d))
        s == IF d < 0 THEN -1 ELSE 1
    IN  IF g = 0 THEN [n |-> 0, d |-> 0]
        ELSE [n |-> s * (n \div g), d |-> s * (d \div g)]

RInt(i) == [n |-> i, d |-> 1]

RMul(a, b) == Rat(a.n * b.n, a.d * b.d)

RAdd(a, b) == Rat(a.n * b.d + b.n * a.d, a.d * b.d)

RSub(a, b) == Rat(a.n * b.d - b.n * a.d, a.d * b.d)

RAbs(a) == [n |-> Abs(a.n), d |-> Abs(a.d)]

\* numpy.prod of a list of numbers (1 for the empty list)
RECURSIVE RProd(_)
RProd(s) == IF Len(s) = 0 THEN RInt(1) ELSE RMul(Head(s), RProd(Tail(s)))

\* the sum of a list of numbers (0 for the empty list), added up by halves
RECURSIVE RSum(_)
RSum(s) ==
    IF Len(s) = 0 THEN RInt(0)
    ELSE IF Len(s) = 1 THEN s[1]
    ELSE LET h == Len(s) \div 2
         IN  RAdd(RSum(SubSeq(s, 1, h)), RSum(SubSeq(s, h + 1, Len(s))))

\* numpy.prod of a list of integers
RECURSIVE IProd(_)
IProd(s) == IF Len(s) = 0 THEN 1 ELSE Head(s) * IProd(Tail(s))

\* the first k elements of a list (Python s[:k], or a loop over range(k))
Prefix(s, k) == SubSeq(s, 1, k)

(***************************************************************************)
(* itertools.product over the ranges range(n), n in ns: the tuples of       *)
(* indices in lexicographic order, the last position varying fastest.      *)
(***************************************************************************)
RECURSIVE product(_)
product(ns) ==
    IF Len(ns) = 0 THEN << <<>> >>
    ELSE LET rest == product(Tail(ns))
             m    == Len(rest)
         IN  [i \in 1..(Head(ns) * m) |->
                 << (i - 1) \div m >> \o rest[((i - 1) % m) + 1]]

\* itertools.product(a, b) of two lists: pairs, the second varying fastest
product2(a, b) ==
    [i \in 1..(Len(a) * Len(b)) |->
        << a[((i - 1) \div Len(b)) + 1], b[((i - 1) % Len(b)) + 1] >>]

(***************************************************************************)
(* MSLP                                                                    *)
(***************************************************************************)
\* self.n_Markov_states is the integer 1 (stage-wise independent) or a list
ScalarOne == [scalar |-> 1]

ListOf(s) == [list |-> s]

IsOne(x) == "scalar" \in DOMAIN x

\* MSLP.__init__: the program after construction.  The stage models are
\* StochasticModel objects: n_samples[t+1] is models[t].n_samples,
\* probability says whether the models carry a probability measure, and
\* copied says whether models[t] is a list of per-Markov-state copies.
MSLP(T, sense, n_samples, probability) ==
    [ T |-> T,
      sense |-> sense,
      n_Markov_states |-> ScalarOne,
      dim_Markov_states |-> <<>>,
      _type |-> "stage-wise independent",
      _individual_type |-> "original",
      _flag_discrete |-> 0,
      _flag_update |-> 0,
      Markov_states |-> None,
      transition_matrix |-> None,
      Markovian_uncertainty |-> None,
      db |-> None,
      models |-> [n_samples |-> n_samples, probability |-> probability,
                  copied |-> FALSE] ]

\* Python indexing s[i], i counted from 0
Idx(s, i) == s[i + 1]

\* the result of a call on an object: the object afterwards and the
\* exception raised ("" when the call returned)
Result(obj, raised) == [obj |-> obj, raised |-> raised]

(***************************************************************************)
(* msppy.utils.statistics.check_Markov_states_and_transition_matrix: the   *)
(* state vectors have one dimension, stage 0 has one state, every          *)
(* transition matrix has the shape n[t-1] x n[t] and stochastic rows.      *)
(* Returns the per-stage dimension and the per-stage number of states.     *)
(***************************************************************************)
check_Markov_states_and_transition_matrix(Markov_states, transition_matrix, T) ==
    LET n   == [t \in 1..Len(Markov_states) |-> Len(Markov_states[t])]
        dim == [t \in 1..Len(Markov_states) |-> Len(Markov_states[t][1])]
    IN  IF Len(Markov_states) # T \/ Len(transition_matrix) # T
          THEN [raised |-> "DimensionError", dim |-> <<>>, n |-> <<>>]
        ELSE IF \E t \in 1..T : \E k \in 1..n[t] :
                    Len(Markov_states[t][k]) # dim[1]
          THEN [raised |-> "DimensionError", dim |-> <<>>, n |-> <<>>]
        ELSE IF n[1] # 1
          THEN [raised |-> "DimensionError", dim |-> <<>>, n |-> <<>>]
        ELSE IF \E t \in 1..T :
                    \/ Len(transition_matrix[t]) # (IF t = 1 THEN 1 ELSE n[t - 1])
                    \/ \E i \in 1..Len(transition_matrix[t]) :
                           Len(transition_matrix[t][i]) # n[t]
          THEN [raised |-> "DimensionError", dim |-> <<>>, n |-> <<>>]
        ELSE IF \E t \in 1..T : \E i \in 1..Len(transition_matrix[t]) :
                    RSum(transition_matrix[t][i]) # RInt(1)
          THEN [raised |-> "StochasticityError", dim |-> <<>>, n |-> <<>>]
        ELSE [raised |-> "", dim |-> dim, n |-> n]

(***************************************************************************)
(* msppy.utils.statistics.check_Markovian_uncertainty: the generator is    *)
(* called once for a trial; it must return an array of three dimensions    *)
(* covering at least T stages.  Returns the per-stage dimension.           *)
(***************************************************************************)
check_Markovian_uncertainty(Markovian_uncertainty, T) ==
    IF Markovian_uncertainty.stages < T
      THEN [raised |-> "ValueError", dim |-> <<>>]
      ELSE [raised |-> "", dim |-> [t \in 1..T |-> Markovian_uncertainty.dim]]

\* add_MC_uncertainty looking only for an earlier sample path generator
add_MC_uncertainty_unguarded(self, Markov_states, transition_matrix) ==
    IF ~IsNone(self.Markovian_uncertainty)
      THEN Result(self, "ValueError")
    ELSE LET info == check_Markov_states_and_transition_matrix(
                         Markov_states, transition_matrix, self.T)
         IN  IF info.raised # "" THEN Result(self, info.raised)
             ELSE Result([self EXCEPT !.dim_Markov_states = info.dim,
                                      !.n_Markov_states = ListOf(info.n),
                                      !.Markov_states = Some(Markov_states),
                                      !.transition_matrix = Some(transition_matrix),
                                      !._type = "Markov chain"], "")

\* MSLP.add_MC_uncertainty
add_MC_uncertainty(self, Markov_states, transition_matrix) ==
    IF ~IsNone(self.Markovian_uncertainty) \/ ~IsNone(self.Markov_states)
      THEN Result(self, "ValueError")
    ELSE LET info == check_Markov_states_and_transition_matrix(
                         Markov_states, transition_matrix, self.T)
         IN  IF info.raised # "" THEN Result(self, info.raised)
             ELSE Result([self EXCEPT !.dim_Markov_states = info.dim,
                                      !.n_Markov_states = ListOf(info.n),
                                      !.Markov_states = Some(Markov_states),
                                      !.transition_matrix = Some(transition_matrix),
                                      !._type = "Markov chain"], "")

\* MSLP.add_Markovian_uncertainty
add_Markovian_uncertainty(self, Markovian_uncertainty) ==
    IF ~IsNone(self.Markovian_uncertainty) \/ ~IsNone(self.Markov_states)
      THEN Result(self, "ValueError")
    ELSE LET info == check_Markovian_uncertainty(Markovian_uncertainty, self.T)
         IN  IF info.raised # "" THEN Result(self, info.raised)
             ELSE Result([self EXCEPT !.dim_Markov_states = info.dim,
                                      !.Markovian_uncertainty =
                                          Some(Markovian_uncertainty),
                                      !._type = "Markovian"], "")

\* MSLP._check_multistage_model: a Markovian process must be discretized;
\* the stage models of a Markov chain are copied once per Markov state
_check_multistage_model(self) ==
    IF self._type = "Markovian" /\ self._flag_discrete = 0
      THEN Result(self, "Exception")
    ELSE IF self._type = "Markov chain"
            \/ (self._type = "Markovian" /\ self._flag_discrete = 1)
      THEN Result([self EXCEPT !.models.copied = TRUE], "")
    ELSE Result(self, "")

(***************************************************************************)
(* The probability measure of a stage model: m.probability of models[t]    *)
(* (or of the copy models[t][k]), None when the model carries none.  A     *)
(* given measure over n outcomes weighs outcome i by i+1, and by n-i on    *)
(* the copies of odd Markov state index.                                   *)
(***************************************************************************)
GivenProbability(n, k) ==
    [i \in 1..n |-> Rat(2 * (IF k % 2 = 0 THEN i ELSE n + 1 - i), n * (n + 1))]

ModelProbability(self, t, k) ==
    IF self.models.probability = "given"
      THEN Some(GivenProbability(Idx(self.models.n_samples, t), k))
      ELSE None

\* _set_up_probability taking the uniform measure over the outcomes of
\* stage 0 in every stage
_set_up_probability_stage0(self) ==
    IF IsOne(self.n_Markov_states)
      THEN [t1 \in 1..self.T |->
               LET n == self.models.n_samples[t1]
                   p == ModelProbability(self, t1 - 1, 0)
               IN  IF ~IsNone(p) THEN Val(p)
                   ELSE [i \in 1..n |-> Rat(1, self.models.n_samples[1])]]
      ELSE [t1 \in 1..self.T |->
               [k1 \in 1..self.n_Markov_states.list[t1] |->
                   LET n == self.models.n_samples[t1]
                       p == ModelProbability(self, t1 - 1, k1 - 1)
                   IN  IF ~IsNone(p) THEN Val(p)
                       ELSE [i \in 1..n |-> Rat(1, self.models.n_samples[1])]]]

\* MSLP._set_up_probability: the uniform measure where none is given
_set_up_probability(self) ==
    IF IsOne(self.n_Markov_states)
      THEN [t1 \in 1..self.T |->
               LET n == self.models.n_samples[t1]
                   p == ModelProbability(self, t1 - 1, 0)
               IN  IF ~IsNone(p) THEN Val(p)
                   ELSE [i \in 1..n |-> Rat(1, n)]]
      ELSE [t1 \in 1..self.T |->
               [k1 \in 1..self.n_Markov_states.list[t1] |->
                   LET n == self.models.n_samples[t1]
                       p == ModelProbability(self, t1 - 1, k1 - 1)
                   IN  IF ~IsNone(p) THEN Val(p)
                       ELSE [i \in 1..n |-> Rat(1, n)]]]

(***************************************************************************)
(* MSLP._enumerate_sample_paths(T): the number of sample paths up to stage *)
(* T and their list.  A path is the tuple of outcome indices, paired with  *)
(* the tuple of Markov state indices when n_Markov_states is a list.       *)
(* Reading models[t][0] of models that are not yet copied per Markov state *)
(* is a TypeError.                                                         *)
(***************************************************************************)
_enumerate_sample_paths(self, T) ==
    IF IsOne(self.n_Markov_states)
      THEN [raised |-> "",
            n_sample_paths |-> IProd(Prefix(self.models.n_samples, T + 1)),
            sample_paths |-> product(Prefix(self.models.n_samples, T + 1))]
    ELSE IF ~self.models.copied
      THEN [raised |-> "TypeError", n_sample_paths |-> 0, sample_paths |-> <<>>]
    ELSE LET n_sample_paths == IProd(Prefix(self.models.n_samples, T + 1))
             sample_paths == product(Prefix(self.models.n_samples, T + 1))
             n_Markov_state_paths == IProd(self.n_Markov_states.list)
             Markov_state_paths ==
                 product(Prefix(self.n_Markov_states.list, T + 1))
         IN  [raised |-> "",
              n_sample_paths |-> n_Markov_state_paths * n_sample_paths,
              sample_paths |-> product2(sample_paths, Markov_state_paths)]

\* _compute_weight_sample_path leaving out the transition into the last
\* stage
_compute_weight_sample_path_short(self, sample_path) ==
    LET probability == _set_up_probability(self)
        T == IF IsOne(self.n_Markov_states) THEN Len(sample_path)
             ELSE Len(Idx(sample_path, 0))
    IN  IF IsOne(self.n_Markov_states)
          THEN RProd([t1 \in 1..T |->
                   Idx(probability[t1], sample_path[t1])])
          ELSE RMul(
                 RProd([t \in 1..(T - 2) |->
                     Idx(Idx(Idx(Val(self.transition_matrix), t),
                             Idx(Idx(sample_path, 1), t - 1)),
                         Idx(Idx(sample_path, 1), t))]),
                 RProd([t1 \in 1..T |->
                     Idx(Idx(probability[t1], Idx(sample_path, 1)[t1]),
                         Idx(sample_path, 0)[t1])]))

\* MSLP._compute_weight_sample_path: the probability of a sample path
_compute_weight_sample_path(self, sample_path) ==
    LET probability == _set_up_probability(self)
        T == IF IsOne(self.n_Markov_states) THEN Len(sample_path)
             ELSE Len(Idx(sample_path, 0))
    IN  IF IsOne(self.n_Markov_states)
          THEN RProd([t1 \in 1..T |->
                   Idx(probability[t1], sample_path[t1])])
          ELSE RMul(
                 RProd([t \in 1..(T - 1) |->
                     Idx(Idx(Idx(Val(self.transition_matrix), t),
                             Idx(Idx(sample_path, 1), t - 1)),
                         Idx(Idx(sample_path, 1), t))]),
                 RProd([t1 \in 1..T |->
                     Idx(Idx(probability[t1], Idx(sample_path, 1)[t1]),
                         Idx(sample_path, 0)[t1])]))

\* the weight of a node without the transition into its Markov state
_compute_current_weight_sample_path_no_transition(self, sample_path) ==
    LET probability == _set_up_probability(self)
        t == IF IsOne(self.n_Markov_states) THEN Len(sample_path) - 1
             ELSE Len(Idx(sample_path, 0)) - 1
    IN  IF IsOne(self.n_Markov_states)
          THEN Idx(Idx(probability, t), Idx(sample_path, t))
          ELSE Idx(Idx(Idx(probability, t), Idx(Idx(sample_path, 1), t)),
                   Idx(Idx(sample_path, 0), t))

\* MSLP._compute_current_weight_sample_path: the probability of the last
\* node of a sample path given its parent
_compute_current_weight_sample_path(self, sample_path) ==
    LET probability == _set_up_probability(self)
        t == IF IsOne(self.n_Markov_states) THEN Len(sample_path) - 1
             ELSE Len(Idx(sample_path, 0)) - 1
    IN  IF IsOne(self.n_Markov_states)
          THEN Idx(Idx(probability, t), Idx(sample_path, t))
          ELSE RMul(IF t > 0
                      THEN Idx(Idx(Idx(Val(self.transition_matrix), t),
                                   Idx(Idx(sample_path, 1), t - 1)),
                               Idx(Idx(sample_path, 1), t))
                      ELSE RInt(1),
                    Idx(Idx(Idx(probability, t), Idx(Idx(sample_path, 1), t)),
                        Idx(Idx(sample_path, 0), t)))

(***************************************************************************)
(* Numbers of the evaluation engine.  The policy values are Python floats, *)
(* numpy.dot and compute_CI return numpy float64.  A Python float divided  *)
(* by zero raises ZeroDivisionError; a numpy float64 divided by zero is    *)
(* inf (n = 1, d = 0) or nan (n = 0, d = 0) and raises nothing.            *)
(***************************************************************************)
RDiv(a, b) == Rat(a.n * b.d, a.d * b.n)

Number(kind, r) == [kind |-> kind, n |-> r.n, d |-> r.d]

\* the string 'nan' of _compute_gap
StrNan == [kind |-> "str", n |-> 0, d |-> 0]

\* abs((x - y) / z) for x, y, z of which one is a numpy float64 exactly
\* when kind is "np"
AbsQuotient(kind, x, y, z) ==
    IF z.n = 0 /\ kind = "py"
      THEN [raised |-> "ZeroDivisionError", value |-> StrNan]
      ELSE [raised |-> "", value |-> Number(kind, RAbs(RDiv(RSub(x, y), z)))]

RECURSIVE SeqSum(_)
SeqSum(s) == IF Len(s) = 0 THEN 0 ELSE Head(s) + SeqSum(Tail(s))

SeqMax(s) == CHOOSE x \in {s[i] : i \in 1..Len(s)} :
                 \A i \in 1..Len(s) : s[i] <= x

SeqMin(s) == CHOOSE x \in {s[i] : i \in 1..Len(s)} :
                 \A i \in 1..Len(s) : x <= s[i]

(***************************************************************************)
(* msppy.utils.statistics.compute_CI: the two sided confidence interval of *)
(* the mean of the values at the given percentile, an error for a          *)
(* percentile outside (0,100) or fewer than two values.  The half width    *)
(* stands for critical value times standard error: it is zero exactly when *)
(* the values do not vary and grows with the percentile.                   *)
(***************************************************************************)
compute_CI(array, percentile) ==
    IF percentile <= 0 \/ percentile >= 100 \/ Len(array) < 2
      THEN [raised |-> "InvalidParameterError", CI |-> None]
      ELSE LET mean == Rat(SeqSum(array), Len(array))
               half == Rat((SeqMax(array) - SeqMin(array)) * percentile,
                           100 * Len(array))
           IN  [raised |-> "",
                CI |-> Some(<< RSub(mean, half), RAdd(mean, half) >>)]

(***************************************************************************)
(* msppy.utils.statistics.allocate_jobs: the indices 0..n-1 cut into       *)
(* n_processes contiguous shares of near equal size, the remainder going   *)
(* to the earliest workers.                                                *)
(***************************************************************************)
allocate_jobs(n, n_processes) ==
    LET chunk == n \div n_processes
        extra == n % n_processes
        size(p)  == chunk + (IF p <= extra THEN 1 ELSE 0)
        start(p) == (p - 1) * chunk + (IF p - 1 <= extra THEN p - 1 ELSE extra)
    IN  [p \in 1..n_processes |-> [i \in 1..size(p) |-> start(p) + i - 1]]

\* range(n) as a list
range(n) == [i \in 1..n |-> i - 1]

(***************************************************************************)
(* _Evaluation                                                             *)
(***************************************************************************)
\* _Evaluation.__init__.  No code of the classes sets random_state: the
\* attribute is there only when the caller has assigned it.
_Evaluation(cls, program) ==
    [ cls |-> cls,
      db |-> program.db,
      pv |-> None,
      CI |-> None,
      epv |-> None,
      gap |-> None,
      stage_cost |-> None,
      solution |-> None,
      solution_dual |-> None,
      n_sample_paths |-> None,
      sample_path_idx |-> None,
      markovian_idx |-> None,
      markovian_samples |-> None,
      solve_true |-> FALSE,
      random_state |-> None,
      n_simulations |-> None,
      query |-> <<>>,
      query_dual |-> <<>>,
      query_stage_cost |-> FALSE ]

\* _compute_gap trying the exact expected value before the interval
_compute_gap_epv_first(self, program) ==
    IF IsNone(self.db) THEN Result(self, "TypeError")
    ELSE LET db == Val(self.db)
             q  == IF ~IsNone(self.epv)
                     THEN AbsQuotient("np", Val(self.epv), db, db)
                   ELSE IF ~IsNone(self.CI)
                     THEN IF program.sense = 1
                            THEN AbsQuotient("np", Val(self.CI)[2], db, db)
                            ELSE AbsQuotient("np", db, Val(self.CI)[1], db)
                   ELSE IF Len(Val(self.pv)) = 0
                     THEN [raised |-> "IndexError", value |-> StrNan]
                   ELSE AbsQuotient("py", RInt(Val(self.pv)[1]), db, db)
         IN  IF q.raised = "ZeroDivisionError"
               THEN Result([self EXCEPT !.gap = Some(StrNan)], "")
             ELSE IF q.raised # "" THEN Result(self, q.raised)
             ELSE Result([self EXCEPT !.gap = Some(q.value)], "")

\* _Evaluation._compute_gap
_compute_gap(self, program) ==
    IF IsNone(self.db) THEN Result(self, "TypeError")
    ELSE LET db == Val(self.db)
             q  == IF ~IsNone(self.CI)
                     THEN IF program.sense = 1
                            THEN AbsQuotient("np", Val(self.CI)[2], db, db)
                            ELSE AbsQuotient("np", db, Val(self.CI)[1], db)
                   ELSE IF ~IsNone(self.epv)
                     THEN AbsQuotient("np", Val(self.epv), db, db)
                   ELSE IF Len(Val(self.pv)) = 0
                     THEN [raised |-> "IndexError", value |-> StrNan]
                   ELSE AbsQuotient("py", RInt(Val(self.pv)[1]), db, db)
         IN  IF q.raised = "ZeroDivisionError"
               THEN Result([self EXCEPT !.gap = Some(StrNan)], "")
             ELSE IF q.raised # "" THEN Result(self, q.raised)
             ELSE Result([self EXCEPT !.gap = Some(q.value)], "")

\* Evaluation._compute_sample_path_idx_and_markovian_path
Evaluation_compute_sample_path_idx_and_markovian_path(self, program) ==
    IF Val(self.n_simulations) = -1
      THEN LET r == _enumerate_sample_paths(program, program.T - 1)
           IN  IF r.raised # "" THEN Result(self, r.raised)
               ELSE Result([self EXCEPT
                                !.n_sample_paths = Some(r.n_sample_paths),
                                !.sample_path_idx = Some(r.sample_paths)], "")
      ELSE Result([self EXCEPT !.n_sample_paths = self.n_simulations], "")

\* numpy.sum((x - y)**2) of two vectors
squared_distance(x, y) ==
    SeqSum([j \in 1..Len(x) |-> (x[j] - y[j]) * (x[j] - y[j])])

\* numpy.argmin of a row, scanning from position j with the best index so
\* far: the first occurrence of the minimum
RECURSIVE argmin_scan(_, _, _)
argmin_scan(row, j, best) ==
    IF j > Len(row) THEN best
    ELSE IF row[j] < row[best + 1] THEN argmin_scan(row, j + 1, j - 1)
    ELSE argmin_scan(row, j + 1, best)

argmin(row) == argmin_scan(row, 2, 0)

\* EvaluationTrue._compute_sample_path_idx_and_markovian_path, the loop of
\* the lines 251 to 256 from stage t on.  dist is numpy.empty with
\* n_Markov_states[t] columns, of which the loop over Markov_states[t]
\* fills the first len(Markov_states[t]); a column it does not fill holds
\* whatever the memory held, the value uninitialized.
RECURSIVE match_Markov_states(_, _, _, _)
match_Markov_states(self, program, t, uninitialized) ==
    IF t >= program.T THEN Result(self, "")
    ELSE IF IsOne(program.n_Markov_states) THEN Result(self, "TypeError")
    ELSE IF IsNone(program.Markov_states) THEN Result(self, "AttributeError")
    ELSE LET columns == Idx(program.n_Markov_states.list, t)
             states  == Idx(Val(program.Markov_states), t)
             samples == Val(self.markovian_samples)
             dist == [i \in 1..Len(samples) |-> [c \in 1..columns |->
                        IF c <= Len(states)
                          THEN squared_distance(Idx(samples[i], t), states[c])
                          ELSE uninitialized]]
             idx  == [i \in 1..Len(samples) |->
                        [Val(self.markovian_idx)[i] EXCEPT
                            ![t + 1] = argmin(dist[i])]]
         IN  IF Len(states) > columns THEN Result(self, "IndexError")
             ELSE match_Markov_states(
                      [self EXCEPT !.markovian_idx = Some(idx)],
                      program, t + 1, uninitialized)

\* EvaluationTrue._compute_sample_path_idx_and_markovian_path.  For a
\* Markovian process the generator is called with self.random_state;
\* env.generated are the trajectories it returns, one per simulation.
EvaluationTrue_compute_sample_path_idx_and_markovian_path(self, program, env) ==
    LET s1 == [self EXCEPT !.n_sample_paths = self.n_simulations,
                           !.solve_true = TRUE]
        n  == Val(self.n_simulations)
    IN  IF program._type # "Markovian" THEN Result(s1, "")
        ELSE IF IsNone(self.random_state) THEN Result(s1, "AttributeError")
        ELSE match_Markov_states(
                 [s1 EXCEPT
                    !.markovian_samples = Some(env.generated),
                    !.markovian_idx =
                        Some([i \in 1..n |-> [t \in 1..program.T |-> 0]])],
                 program, 1, env.uninitialized)

\* the method of the object's class
_compute_sample_path_idx_and_markovian_path(self, program, env) ==
    IF self.cls = "EvaluationTrue"
      THEN EvaluationTrue_compute_sample_path_idx_and_markovian_path(
               self, program, env)
      ELSE Evaluation_compute_sample_path_idx_and_markovian_path(self, program)

(***************************************************************************)
(* The solver, solver._forward: the policy value of one simulation.  With  *)
(* the outcome indices of a sample path given, the value is a function of  *)
(* the path; without, the solver draws the outcomes itself and the value   *)
(* is the drawn one.                                                       *)
(***************************************************************************)
RECURSIVE Weighted(_, _)
Weighted(s, t) == IF Len(s) = 0 THEN 0 ELSE t * Head(s) + Weighted(Tail(s), t + 1)

PolicyValue(program, sample_path) ==
    IF IsOne(program.n_Markov_states) THEN 1 + Weighted(sample_path, 0)
    ELSE 1 + Weighted(sample_path[1], 0) + Weighted(sample_path[2], 0)

\* a T x n matrix with every cell holding the same content
Matrix(T, n, cell) == [t \in 1..T |-> [j \in 1..n |-> cell]]

\* m[:,j] = cell
SetColumn(m, j, cell) == [t \in DOMAIN m |-> [m[t] EXCEPT ![j + 1] = cell]]

ToSet(s) == {s[i] : i \in 1..Len(s)}

(***************************************************************************)
(* _Evaluation.run_single, the loop from the job at position k on: one     *)
(* solver call per job, the results stored under the index of the path.    *)
(* env.draws are the values of the simulations the solver draws itself,    *)
(* env.fail is the index (from 1) of the path whose solve fails, if any.   *)
(***************************************************************************)
RECURSIVE run_single_loop(_, _, _, _, _, _, _)
run_single_loop(self, program, pv, jobs, k, env, forward) ==
    IF k > Len(jobs)
      THEN [obj |-> self, pv |-> pv, raised |-> "", forward |-> forward]
    ELSE LET j == jobs[k]
         IN  IF \/ (~IsNone(self.sample_path_idx)
                      /\ j >= Len(Val(self.sample_path_idx)))
                \/ (~IsNone(self.markovian_idx)
                      /\ j >= Len(Val(self.markovian_idx)))
                \/ (~IsNone(self.markovian_samples)
                      /\ j >= Len(Val(self.markovian_samples)))
               THEN [obj |-> self, pv |-> pv, raised |-> "IndexError",
                     forward |-> forward]
             ELSE IF env.fail = j + 1
               THEN [obj |-> self, pv |-> pv, raised |-> "SolverError",
                     forward |-> forward + 1]
             ELSE LET value ==
                          IF ~IsNone(self.sample_path_idx)
                            THEN PolicyValue(program,
                                             Idx(Val(self.sample_path_idx), j))
                            ELSE env.draws[j + 1]
                      s1 == [self EXCEPT
                               !.solution = Some([item \in DOMAIN Val(@) |->
                                   SetColumn(Val(@)[item], j, "solver")]),
                               !.solution_dual = Some([item \in DOMAIN Val(@) |->
                                   SetColumn(Val(@)[item], j, "solver")]),
                               !.stage_cost =
                                   IF self.query_stage_cost
                                     THEN Some(SetColumn(Val(@), j, "solver"))
                                     ELSE @]
                  IN  run_single_loop(s1, program, [pv EXCEPT ![j + 1] = value],
                                      jobs, k + 1, env, forward + 1)

\* _Evaluation.run_single: the random source is seeded with the first job
run_single(self, program, pv, jobs, env) ==
    IF Len(jobs) = 0
      THEN [obj |-> self, pv |-> pv, raised |-> "IndexError", forward |-> 0]
      ELSE run_single_loop(self, program, pv, jobs, 1, env, 0)

\* the workers of a parallel run, from worker p on: each runs run_single
\* on its share in a process of its own, writing the shared array pv; what
\* a worker stores in its copy of the object, and an exception that ends
\* it, stay in its process
RECURSIVE run_workers(_, _, _, _, _, _, _)
run_workers(self, program, pv, jobs, p, env, forward) ==
    IF p > Len(jobs) THEN [pv |-> pv, forward |-> forward]
    ELSE LET w == run_single(self, program, pv, jobs[p], env)
         IN  run_workers(self, program, w.pv, jobs, p + 1, env,
                         forward + w.forward)

\* what a call of run shows besides the object: the exception raised, whether
\* the solver was built, and the number of solver calls
RunResult(obj, raised, built, forward) ==
    [obj |-> obj, raised |-> raised, built |-> built, forward |-> forward]

\* numpy.dot of the policy values and the weights of their paths
dot(pv, weights) ==
    RSum([j \in 1..Len(pv) |-> RMul(RInt(pv[j]), weights[j])])

\* _Evaluation.run from line 175 on: the exact expected value (the local
\* name pv is bound only in the parallel branch), the confidence interval
\* and the gap
run_aggregate(self, program, args, shared, forward) ==
    IF Val(self.n_simulations) = -1 /\ IsNone(shared)
      THEN RunResult(self, "UnboundLocalError", TRUE, forward)
    ELSE LET s1 == IF Val(self.n_simulations) = -1
                     THEN [self EXCEPT !.epv = Some(dot(Val(shared),
                              [j \in 1..Val(self.n_sample_paths) |->
                                  _compute_weight_sample_path(program,
                                      Idx(Val(self.sample_path_idx), j - 1))]))]
                     ELSE self
             ci == IF Val(self.n_simulations) \notin {-1, 1}
                     THEN compute_CI(Val(s1.pv), args.percentile)
                     ELSE [raised |-> "", CI |-> s1.CI]
         IN  IF ci.raised # "" THEN RunResult(s1, ci.raised, TRUE, forward)
             ELSE LET g == _compute_gap([s1 EXCEPT !.CI = ci.CI], program)
                  IN  RunResult(g.obj, g.raised, TRUE, forward)

\* the test of line 129 without the stage costs
unsupported_combination_without_stage_cost(args) ==
    args.n_processes # 1
    /\ (~IsNone(args.query) \/ ~IsNone(args.query_dual))

\* _Evaluation.run, lines 129 and 130: per-path queries need one process
unsupported_combination(args) ==
    args.n_processes # 1
    /\ (~IsNone(args.query) \/ ~IsNone(args.query_dual)
          \/ args.query_stage_cost)

\* _Evaluation.run, for a program of finitely many stages
\* (MSP.n_periodical_stages is None, so the solver is SDDP and T is MSP.T)
run(self, program, args, env) ==
    IF unsupported_combination(args)
      THEN RunResult(self, "NotImplementedError", FALSE, 0)
    ELSE LET T == program.T
             query == IF IsNone(args.query) THEN <<>> ELSE Val(args.query)
             query_dual == IF IsNone(args.query_dual) THEN <<>>
                           ELSE Val(args.query_dual)
             c == _compute_sample_path_idx_and_markovian_path(
                      [self EXCEPT !.n_simulations = Some(args.n_simulations)],
                      program, env)
         IN  IF c.raised # "" THEN RunResult(c.obj, c.raised, TRUE, 0)
             ELSE IF Val(c.obj.n_sample_paths) < 0
               THEN RunResult(c.obj, "ValueError", TRUE, 0)
             ELSE LET n  == Val(c.obj.n_sample_paths)
                      s1 == [c.obj EXCEPT
                               !.pv = Some([j \in 1..n |-> 0]),
                               !.stage_cost = Some(Matrix(T, n, "zero")),
                               !.solution = Some([item \in ToSet(query) |->
                                                     Matrix(T, n, "nan")]),
                               !.solution_dual = Some([item \in ToSet(query_dual) |->
                                                     Matrix(T, n, "nan")]),
                               !.query = query,
                               !.query_dual = query_dual,
                               !.query_stage_cost = args.query_stage_cost]
                  IN  IF args.n_processes # 1
                        THEN LET w == run_workers(s1, program,
                                          [j \in 1..n |-> 0],
                                          allocate_jobs(n, args.n_processes),
                                          1, env, 0)
                             IN  run_aggregate([s1 EXCEPT !.pv = Some(w.pv)],
                                               program, args, Some(w.pv),
                                               w.forward)
                        ELSE LET w == run_single(s1, program,
                                          [j \in 1..n |-> 0], range(n), env)
                             IN  IF w.raised # ""
                                   THEN RunResult([w.obj EXCEPT !.pv = Some(w.pv)],
                                                  w.raised, TRUE, w.forward)
                                   ELSE run_aggregate(
                                            [w.obj EXCEPT !.pv = Some(w.pv)],
                                            program, args, None, w.forward)

(***************************************************************************)
(* Inputs of the probability model.                                        *)
(***************************************************************************)
\* the k-th Markov state of a stage, a vector of dimension dim
StateVector(k, dim) == [j \in 1..dim |-> 2 * k]

\* a row of a transition matrix over n states.  Family "spec" has the rows
\* of the three stage example of the specification, [0.3, 0.7] into stage
\* 1 and [0.6, 0.4], [0.2, 0.8] into the later stages; family "uniform"
\* has uniform rows; family "leaky" has rows that do not sum to one.
TransitionRow(family, t, i, n) ==
    IF family = "leaky" THEN [k \in 1..n |-> Rat(1, n + 1)]
    ELSE IF family = "spec" /\ n = 2
      THEN IF t = 1 THEN << Rat(3, 10), Rat(7, 10) >>
           ELSE IF i = 0 THEN << Rat(6, 10), Rat(4, 10) >>
           ELSE << Rat(2, 10), Rat(8, 10) >>
    ELSE [k \in 1..n |-> Rat(1, n)]

\* the Markov chain with nm[t+1] states in stage t
ChainStates(nm, dim) ==
    [t1 \in 1..Len(nm) |-> [k1 \in 1..nm[t1] |-> StateVector(k1 - 1, dim)]]

ChainTransitions(nm, family) ==
    [t1 \in 1..Len(nm) |->
        IF t1 = 1 THEN << << RInt(1) >> >>
        ELSE [i1 \in 1..nm[t1 - 1] |->
                 TransitionRow(family, t1 - 1, i1 - 1, nm[t1])]]

\* the counts taken as given, the first entry of a sequence not looked at
expand_counts_first_unchecked(x, T) ==
    IF IsOne(x)
      THEN IF x.scalar < 1 THEN [raised |-> "ValueError", list |-> <<>>]
           ELSE [raised |-> "",
                 list |-> [t \in 1..T |-> IF t = 1 THEN 1 ELSE x.scalar]]
    ELSE IF Len(x.list) # T THEN [raised |-> "ValueError", list |-> <<>>]
    ELSE [raised |-> "", list |-> x.list]

(***************************************************************************)
(* MSLP.discretize.  An argument that is an integer or a list is           *)
(* [scalar |-> k] or [list |-> s].  models[t]._discretize draws the        *)
(* samples of a stage model, which then has n_samples[t] outcomes; a list  *)
(* of copies has no such method.  msppy.discretize.Markovian trains a      *)
(* Markov chain on paths of the generator: its methods SA, SAA and RSA     *)
(* return the states, of the dimension of the generator, and the           *)
(* transition matrices of a chain with the requested number of states.     *)
(***************************************************************************)
\* the lines 384 to 403 and 410 to 428: an integer below 1, a list of
\* another length than T and a list not beginning with 1 are ValueErrors;
\* the integer n stands for [1, n, ..., n]
expand_counts(x, T) ==
    IF IsOne(x)
      THEN IF x.scalar < 1 THEN [raised |-> "ValueError", list |-> <<>>]
           ELSE [raised |-> "",
                 list |-> [t \in 1..T |-> IF t = 1 THEN 1 ELSE x.scalar]]
    ELSE IF Len(x.list) # T THEN [raised |-> "ValueError", list |-> <<>>]
    ELSE IF x.list[1] # 1 THEN [raised |-> "ValueError", list |-> <<>>]
    ELSE [raised |-> "", list |-> x.list]

\* the lines 429 to 456
discretize_Markov_states(self, n_Markov_states, method, Markov_states, transition_matrix) ==
    IF method \in {"RSA", "SA", "SAA"}
      THEN IF IsNone(self.Markovian_uncertainty)
             THEN Result(self, "AttributeError")
             ELSE Result([self EXCEPT
                     !.Markov_states = Some(ChainStates(n_Markov_states,
                         Val(self.Markovian_uncertainty).dim)),
                     !.transition_matrix =
                         Some(ChainTransitions(n_Markov_states, "uniform")),
                     !._flag_discrete = 1,
                     !.n_Markov_states = ListOf(n_Markov_states)], "")
    ELSE IF method = "input"
      THEN LET info == check_Markov_states_and_transition_matrix(
                           Markov_states, transition_matrix, self.T)
           IN  IF info.raised # "" THEN Result(self, info.raised)
               ELSE IF info.dim # self.dim_Markov_states
                 THEN Result(self, "ValueError")
               ELSE Result([self EXCEPT
                       !.Markov_states = Some(Markov_states),
                       !.transition_matrix = Some(transition_matrix),
                       !._flag_discrete = 1,
                       !.n_Markov_states = ListOf(info.n)], "")
    ELSE Result([self EXCEPT !._flag_discrete = 1,
                             !.n_Markov_states = ListOf(n_Markov_states)], "")

\* MSLP.discretize
discretize(self, n_samples, n_Markov_states, method, Markov_states, transition_matrix) ==
    LET ns == IF IsNone(n_samples) THEN [raised |-> "", list |-> <<>>]
              ELSE expand_counts(Val(n_samples), self.T)
        s1 == IF IsNone(n_samples) \/ ns.raised # "" THEN self
              ELSE [self EXCEPT !.models.n_samples =
                       [t \in 1..self.T |-> IF t = 1 THEN @[1] ELSE ns.list[t]]]
    IN  IF ns.raised # "" THEN Result(self, ns.raised)
        ELSE IF ~IsNone(n_samples) /\ self.models.copied
          THEN Result(self, "AttributeError")
        ELSE IF IsNone(n_Markov_states) THEN Result(s1, "")
        ELSE LET nm == expand_counts(Val(n_Markov_states), self.T)
             IN  IF nm.raised # "" THEN Result(s1, nm.raised)
                 ELSE discretize_Markov_states(s1, nm.list, method,
                          Markov_states, transition_matrix)

\* the lists [1, n_1, ..., n_{T-1}] with every n_t in 1..max
StageCounts(T, max) ==
    { <<1>> \o s : s \in [1..(T - 1) -> 1..max] }

\* arguments of add_MC_uncertainty: well formed chains, a chain with two
\* states in stage 0, a chain over too few stages, and a chain whose rows
\* are not stochastic
MCArguments(T) ==
    { [Markov_states |-> ChainStates(nm, 1),
       transition_matrix |-> ChainTransitions(nm, family)] :
         nm \in StageCounts(T, MaxMarkov), family \in {"spec", "uniform"} }
    \cup
    { [Markov_states |-> ChainStates([t \in 1..T |-> 2], 1),
       transition_matrix |-> ChainTransitions([t \in 1..T |-> 2], "uniform")],
      [Markov_states |-> ChainStates([t \in 1..(T - 1) |-> 1], 1),
       transition_matrix |-> ChainTransitions([t \in 1..(T - 1) |-> 1], "uniform")],
      [Markov_states |-> ChainStates([t \in 1..T |-> 1], 1),
       transition_matrix |-> ChainTransitions([t \in 1..T |-> 1], "leaky")] }

\* sample path generators: the dimension of the vectors they return and
\* the number of stages they cover
Generators(T) == { [dim |-> 1, stages |-> T], [dim |-> 1, stages |-> T - 1] }

(***************************************************************************)
(* The record of the latest call: the operation, its argument, the         *)
(* exception it raised ("" when it returned), and whether a call of        *)
(* add_MC_uncertainty or add_Markovian_uncertainty has succeeded so far.   *)
(***************************************************************************)
Call(op, arg, raised, added) ==
    [op |-> op, arg |-> arg, raised |-> raised, added |-> added]

\* the programs MSLP(T, ...) can construct
NewPrograms ==
    UNION { { MSLP(T, 1, n_samples, probability) :
                n_samples \in StageCounts(T, MaxSamples),
                probability \in {"none", "given"} } : T \in MinT..MaxT }

(***************************************************************************)
(* The probability model: setting the process type, and the enumeration    *)
(* and weighting of sample paths.                                          *)
(***************************************************************************)
InitModel ==
    /\ MSP \in NewPrograms
    /\ ev = None
    /\ call = Call("MSLP", None, "", FALSE)
    /\ ret = None

CallAddMC ==
    \E a \in MCArguments(MSP.T) :
        LET r == add_MC_uncertainty(MSP, a.Markov_states, a.transition_matrix)
        IN  /\ MSP' = r.obj
            /\ call' = Call("add_MC_uncertainty", None, r.raised,
                            call.added \/ r.raised = "")
            /\ ret' = None
            /\ UNCHANGED ev

CallAddMarkovian ==
    \E g \in Generators(MSP.T) :
        LET r == add_Markovian_uncertainty(MSP, g)
        IN  /\ MSP' = r.obj
            /\ call' = Call("add_Markovian_uncertainty", None, r.raised,
                            call.added \/ r.raised = "")
            /\ ret' = None
            /\ UNCHANGED ev

CallCheckMultistage ==
    LET r == _check_multistage_model(MSP)
    IN  /\ MSP' = r.obj
        /\ call' = Call("_check_multistage_model", None, r.raised, call.added)
        /\ ret' = None
        /\ UNCHANGED ev

CallEnumerate ==
    \E T \in 0..(MSP.T - 1) :
        LET r == _enumerate_sample_paths(MSP, T)
        IN  /\ call' = Call("_enumerate_sample_paths", T, r.raised, call.added)
            /\ ret' = r
            /\ UNCHANGED <<MSP, ev>>

\* the weights of all sample paths of the full horizon, as
\* _Evaluation.run computes them for the exact expected value
CallWeights ==
    LET r == _enumerate_sample_paths(MSP, MSP.T - 1)
    IN  /\ r.raised = ""
        /\ call' = Call("_compute_weight_sample_path", r.sample_paths, "",
                        call.added)
        /\ ret' = [j \in 1..Len(r.sample_paths) |->
                      _compute_weight_sample_path(MSP, r.sample_paths[j])]
        /\ UNCHANGED <<MSP, ev>>

NextModel ==
    \/ CallAddMC
    \/ CallAddMarkovian
    \/ CallCheckMultistage
    \/ CallEnumerate
    \/ CallWeights

SpecModel == InitModel /\ [][NextModel]_vars

(***************************************************************************)
(* Claims about the probability model (specification SpecModel).           *)
(***************************************************************************)
IsMarkovModel == ~IsOne(MSP.n_Markov_states)

NoDuplicates(s) == \A i, j \in 1..Len(s) : s[i] = s[j] => i = j

\* C3: _enumerate_sample_paths(T) returns, for every horizon T in
\* 0..self.T-1, a count that is the length of the returned list and the
\* product over the stages 0..T of n_samples (times the product over the
\* stages 0..T of n_Markov_states for a Markov chain model), and no two
\* returned paths are identical.
C3_EnumerationCount ==
    (call.op = "_enumerate_sample_paths" /\ call.raised = "") =>
        LET T == call.arg
            declared ==
                IProd(Prefix(MSP.models.n_samples, T + 1))
                * (IF IsMarkovModel
                     THEN IProd(Prefix(MSP.n_Markov_states.list, T + 1))
                     ELSE 1)
        IN  /\ ret.n_sample_paths = Len(ret.sample_paths)
            /\ ret.n_sample_paths = declared
            /\ NoDuplicates(ret.sample_paths)

\* the probability of outcome s in stage t, conditional on Markov state k
OutcomeProbability(t, k, s) ==
    LET n == MSP.models.n_samples[t + 1]
    IN  IF MSP.models.probability = "given"
          THEN GivenProbability(n, k)[s + 1]
          ELSE Rat(1, n)

\* the probability of the stages t.. of a path with outcomes sp and Markov
\* states mk, stage by stage
RECURSIVE WeightFrom(_, _, _)
WeightFrom(sp, mk, t) ==
    IF t >= Len(sp) THEN RInt(1)
    ELSE RMul(
           RMul(IF IsMarkovModel /\ t >= 1
                  THEN Val(MSP.transition_matrix)[t + 1][mk[t] + 1][mk[t + 1] + 1]
                  ELSE RInt(1),
                OutcomeProbability(t, IF IsMarkovModel THEN mk[t + 1] ELSE 0,
                                   sp[t + 1])),
           WeightFrom(sp, mk, t + 1))

IsSpecExample ==
    /\ MSP.T = 3
    /\ MSP._type = "Markov chain"
    /\ MSP.models.n_samples = <<1, 1, 1>>
    /\ Val(MSP.transition_matrix) =
           << << <<RInt(1)>> >>,
              << <<Rat(3, 10), Rat(7, 10)>> >>,
              << <<Rat(6, 10), Rat(4, 10)>>, <<Rat(2, 10), Rat(8, 10)>> >> >>

\* C4: _compute_weight_sample_path(path) is, for an independent model, the
\* product over the stages of probability[t][path[t]], and for a Markov
\* chain model the product over t >= 1 of
\* transition_matrix[t][k_{t-1}][k_t] times the product over all stages of
\* the outcome probability conditional on k_t; the four paths of the three
\* stage chain with transitions [[0.3,0.7]] and [[0.6,0.4],[0.2,0.8]] weigh
\* 0.18, 0.12, 0.14 and 0.56.
C4_PathWeight ==
    call.op = "_compute_weight_sample_path" =>
        /\ \A j \in 1..Len(ret) :
               LET path == call.arg[j]
               IN  ret[j] = IF IsMarkovModel
                              THEN WeightFrom(path[1], path[2], 0)
                              ELSE WeightFrom(path, <<>>, 0)
        /\ IsSpecExample =>
               ret = << Rat(18, 100), Rat(12, 100), Rat(14, 100), Rat(56, 100) >>

C4_Witness ==
    /\ call.op = "_compute_weight_sample_path"
    /\ IsSpecExample
    /\ Len(ret) = 4
    /\ ret[4] = Rat(56, 100)

\* C5: the weights of all paths of _enumerate_sample_paths(self.T-1) sum
\* to 1, for outcome probabilities that sum to 1 (given, or defaulted to
\* uniform) and row stochastic transition matrices.
C5_WeightsSumToOne ==
    call.op = "_compute_weight_sample_path" => RSum(ret) = RInt(1)

C5_Witness ==
    /\ call.op = "_compute_weight_sample_path"
    /\ IsMarkovModel
    /\ MSP.models.probability = "given"
    /\ Len(ret) = 2 ^ (2 * (MSP.T - 1))
    /\ RSum(ret) = RInt(1)

AddOperations == {"add_MC_uncertainty", "add_Markovian_uncertainty"}

\* C9: once add_MC_uncertainty or add_Markovian_uncertainty has succeeded,
\* every later call of either fails and leaves _type, Markov_states,
\* transition_matrix, n_Markov_states, dim_Markov_states and
\* Markovian_uncertainty unchanged; a call that fails validation leaves
\* the process type as it was.
C9_ProcessTypeSetOnce ==
    [][ call'.op \in AddOperations =>
          /\ call.added =>
               /\ call'.raised # ""
               /\ MSP'._type = MSP._type
               /\ MSP'.Markov_states = MSP.Markov_states
               /\ MSP'.transition_matrix = MSP.transition_matrix
               /\ MSP'.n_Markov_states = MSP.n_Markov_states
               /\ MSP'.dim_Markov_states = MSP.dim_Markov_states
               /\ MSP'.Markovian_uncertainty = MSP.Markovian_uncertainty
          /\ call'.raised # "" => MSP'._type = MSP._type ]_vars

C9_Witness ==
    /\ call.op = "add_Markovian_uncertainty"
    /\ call.added
    /\ call.raised = "ValueError"
    /\ MSP._type = "Markov chain"

(***************************************************************************)
(* The evaluation engine: runs of one Evaluation object on a solved        *)
(* program.                                                                *)
(***************************************************************************)
\* the deterministic bounds and the policy values the solver may draw
Bounds == {0, 4}

DrawnValues == {1, 2}

\* MSLP._update as far as the probability model goes, and the solver
\* storing its deterministic bound
Solved(program, db) ==
    [ _check_multistage_model(program).obj EXCEPT
        !._flag_update = 1, !.db = Some(RInt(db)) ]

\* [1, n, ..., n]
Stages(T, n) == [t \in 1..T |-> IF t = 1 THEN 1 ELSE n]

\* the programs under evaluation: the minimisation of a stage-wise
\* independent program with MaxSamples outcomes per stage under a given
\* measure, and the maximisation of the Markov chain of the specification's
\* example with MaxMarkov states per stage
EvaluatedPrograms ==
    LET independent ==
            MSLP(MaxT, 1, Stages(MaxT, MaxSamples), "given")
        chain ==
            add_MC_uncertainty(
                MSLP(MaxT, -1, Stages(MaxT, 1), "none"),
                ChainStates(Stages(MaxT, MaxMarkov), 1),
                ChainTransitions(Stages(MaxT, MaxMarkov), "spec")).obj
    IN  { Solved(q, db) : q \in {independent, chain}, db \in Bounds }

\* the arguments of run: no per-path query, a queried variable, or the
\* stage costs
RunArguments ==
    { [ n_simulations |-> n, percentile |-> 95, query |-> q[1],
        query_dual |-> None, query_stage_cost |-> q[2], n_processes |-> k ] :
        n \in {-1} \cup 0..MaxSimulations,
        q \in { <<None, FALSE>>, <<Some(<<"x">>), FALSE>>, <<None, TRUE>> },
        k \in 1..MaxProcesses }

\* what the solver does during a run: the values of the simulations whose
\* outcomes it draws itself (those of a run without sample path indices),
\* and no failure; no program under evaluation has a generator
Environments(self, args) ==
    [ draws : [1..(IF IsNone(self.sample_path_idx) /\ args.n_simulations > 0
                     THEN args.n_simulations ELSE 0) -> DrawnValues],
      fail : {0},
      generated : {<<>>},
      uninitialized : {0} ]

\* the call of run as the claims see it
RunCall(args, env, raised) ==
    Call("run",
         [ n_simulations |-> args.n_simulations,
           n_processes |-> args.n_processes,
           queried |-> (~IsNone(args.query) \/ ~IsNone(args.query_dual)
                          \/ args.query_stage_cost),
           solver_failed |-> env.fail # 0 ],
         raised, FALSE)

Init ==
    /\ MSP \in EvaluatedPrograms
    /\ ev = _Evaluation("Evaluation", MSP)
    /\ call = Call("_Evaluation", None, "", FALSE)
    /\ ret = None

CallRun ==
    \E args \in RunArguments : \E env \in Environments(ev, args) :
        LET r == run(ev, MSP, args, env)
        IN  /\ ev' = r.obj
            /\ call' = RunCall(args, env, r.raised)
            /\ ret' = [built |-> r.built, forward |-> r.forward]
            /\ UNCHANGED MSP

CallComputeGap ==
    /\ ~IsNone(ev.pv)
    /\ LET r == _compute_gap(ev, MSP)
       IN  /\ ev' = r.obj
           /\ call' = Call("_compute_gap", None, r.raised, FALSE)
           /\ ret' = None
           /\ UNCHANGED MSP

Next ==
    \/ CallRun
    \/ CallComputeGap

Spec == Init /\ [][Next]_vars

(***************************************************************************)
(* Claims about the evaluation engine (specification Spec).                *)
(***************************************************************************)
ReturnedFrom(op) == call.op = op /\ call.raised = ""

\* the gap as _compute_gap derives it from a number x other than an end of
\* the confidence interval
GapFrom(x) ==
    LET db == Val(ev.db)
    IN  IF db.n = 0 THEN [n |-> 0, d |-> 0]
        ELSE RDiv(RAbs(RSub(x, db)), RAbs(db))

GapValue == [n |-> Val(ev.gap).n, d |-> Val(ev.gap).d]

\* C1: after any sequence of run calls on one Evaluation object, when the
\* most recent call had n_simulations = 1 and returned, CI is None and the
\* gap is not derived from a confidence interval.
C1_NoIntervalForOneSimulation ==
    (ReturnedFrom("run") /\ call.arg.n_simulations = 1) =>
        /\ IsNone(ev.CI)
        /\ Val(ev.gap).kind # "str" =>
               GapValue = GapFrom(IF ~IsNone(ev.epv) THEN Val(ev.epv)
                                  ELSE RInt(Val(ev.pv)[1]))

\* the paths of the exhaustive enumeration and their weights
AllPaths == _enumerate_sample_paths(MSP, MSP.T - 1).sample_paths

\* C2: run with n_simulations = -1 completes and sets epv to the sum over
\* all enumerated paths j of pv[j] times the weight of path j, with one
\* process and with several.
C2_ExhaustiveExpectedValue ==
    (call.op = "run" /\ call.arg.n_simulations = -1
       /\ ~(call.arg.queried /\ call.arg.n_processes > 1)) =>
        /\ call.raised = ""
        /\ ~IsNone(ev.epv)
        /\ Val(ev.epv) =
               RSum([j \in 1..Len(AllPaths) |->
                       RMul(RInt(Val(ev.pv)[j]),
                            _compute_weight_sample_path(MSP, AllPaths[j]))])

\* C6: run with more than one worker and a per-path query raises before the
\* solver is built and before any sample path is generated or simulated,
\* and leaves pv, CI, epv, gap, solution and stage_cost unchanged.
C6_QueriesNeedOneProcess ==
    [][ (call'.op = "run" /\ call'.arg.n_processes > 1 /\ call'.arg.queried) =>
          /\ call'.raised # ""
          /\ ~ret'.built
          /\ ret'.forward = 0
          /\ ev'.n_sample_paths = ev.n_sample_paths
          /\ ev'.sample_path_idx = ev.sample_path_idx
          /\ ev'.pv = ev.pv
          /\ ev'.CI = ev.CI
          /\ ev'.epv = ev.epv
          /\ ev'.gap = ev.gap
          /\ ev'.solution = ev.solution
          /\ ev'.stage_cost = ev.stage_cost ]_vars

C6_Witness ==
    /\ call.op = "run"
    /\ call.arg.n_processes > 1
    /\ call.arg.queried
    /\ call.raised = "NotImplementedError"
    /\ ~IsNone(ev.pv)
    /\ ~IsNone(ev.CI)

\* C7: _compute_gap with deterministic bound 0 never raises: for any
\* combination of CI, epv and pv available, gap is set to the single
\* "unavailable" value.
C7_ZeroBoundGap ==
    (call.op = "_compute_gap" /\ Val(ev.db).n = 0 /\ Len(Val(ev.pv)) > 0) =>
        /\ call.raised = ""
        /\ ev.gap = Some(StrNan)

SampleValues == {0, 1, 3}

\* what the generator may return for n simulations of T stages: the first
\* stage is deterministic
Trajectories(n, T) ==
    [1..n -> { s \in [1..T -> { <<v>> : v \in SampleValues }] : s[1] = <<0>> }]

\* the content of memory that was not written
UninitializedValues == {-1, 64}

\* the programs after add_Markovian_uncertainty
MarkovianPrograms ==
    { add_Markovian_uncertainty(
          MSLP(T, 1, Stages(T, 1), "none"), [dim |-> 1, stages |-> T]).obj :
      T \in MinT..MaxT }

\* the methods of discretize: the three trainers, a given chain, and a
\* name that is none of them
Methods == {"SA", "SAA", "RSA", "input", "other"}

InitMatcher ==
    /\ MSP \in MarkovianPrograms
    /\ ev = [_Evaluation("EvaluationTrue", MSP) EXCEPT
                !.random_state = Some("RandomState")]
    /\ call = Call("EvaluationTrue", None, "", FALSE)
    /\ ret = None

\* the Markov states a caller may give: pairwise different ones, or states
\* that repeat an earlier state of their stage
GivenStates(nm, repeated) ==
    IF repeated
      THEN [t1 \in 1..Len(nm) |->
               [k1 \in 1..nm[t1] |-> StateVector((k1 - 1) \div 2, 1)]]
      ELSE ChainStates(nm, 1)

\* MSP.discretize(n_Markov_states=k, method=...), a given chain having
\* given states per stage
CallDiscretize ==
    \E k \in 1..MaxMarkov, given \in 1..MaxMarkov, method \in Methods :
    \E repeated \in BOOLEAN :
        LET nm == Stages(MSP.T, given)
            r  == discretize(MSP, None, Some([scalar |-> k]), method,
                             GivenStates(nm, repeated),
                             ChainTransitions(nm, "uniform"))
        IN  /\ MSP' = r.obj
            /\ call' = Call("discretize", method, r.raised, FALSE)
            /\ ret' = None
            /\ UNCHANGED ev

\* ev._compute_sample_path_idx_and_markovian_path() for n simulations
CallMatch ==
    \E n \in 1..MaxSimulations :
    \E generated \in Trajectories(n, MSP.T) :
    \E uninitialized \in UninitializedValues :
        LET r == _compute_sample_path_idx_and_markovian_path(
                     [ev EXCEPT !.n_simulations = Some(n)], MSP,
                     [generated |-> generated, uninitialized |-> uninitialized])
        IN  /\ ev' = r.obj
            /\ call' = Call("_compute_sample_path_idx_and_markovian_path",
                            None, r.raised, FALSE)
            /\ ret' = None
            /\ UNCHANGED MSP

NextMatcher ==
    \/ CallDiscretize
    \/ CallMatch

SpecMatcher == InitMatcher /\ [][NextMatcher]_vars

(***************************************************************************)
(* Claims about the matcher (specification SpecMatcher).                   *)
(***************************************************************************)
\* the matched index of simulation i in stage t, the simulated value, and
\* the Markov states of the stage
MatchedIndex(i, t) == Idx(Val(ev.markovian_idx)[i], t)

MatchedSample(i, t) == Idx(Val(ev.markovian_samples)[i], t)

StatesOf(t) == Idx(Val(MSP.Markov_states), t)

\* C10: after the matcher has returned, for every simulation i and every
\* stage t >= 1 the index markovian_idx[i][t] is an index k of a Markov
\* state of stage t whose squared Euclidean distance to the simulated value
\* markovian_samples[i][t] is the smallest, and no smaller index has that
\* distance; so the index is a function of the simulated value and the
\* states of the stage alone.
C10_NearestStateSmallestIndex ==
    ReturnedFrom("_compute_sample_path_idx_and_markovian_path") =>
        \A i \in 1..Len(Val(ev.markovian_idx)) : \A t \in 1..(MSP.T - 1) :
            LET k == MatchedIndex(i, t)
                d(j) == squared_distance(MatchedSample(i, t), Idx(StatesOf(t), j))
            IN  /\ k \in 0..(Len(StatesOf(t)) - 1)
                /\ \A j \in 0..(Len(StatesOf(t)) - 1) :
                       /\ d(k) <= d(j)
                       /\ j < k => d(j) > d(k)

\* the matcher has returned for a program whose n_Markov_states[t] is the
\* number of Markov states of every stage t
C10_StatesCounted ==
    ReturnedFrom("_compute_sample_path_idx_and_markovian_path") =>
        ((\A t \in 0..(MSP.T - 1) :
              Idx(MSP.n_Markov_states.list, t) = Len(StatesOf(t)))
            => C10_NearestStateSmallestIndex)

\* a simulated value half way between the first two states was matched
C10_Tie ==
    /\ ReturnedFrom("_compute_sample_path_idx_and_markovian_path")
    /\ \E i \in 1..Len(Val(ev.markovian_idx)) : \E t \in 1..(MSP.T - 1) :
           /\ Len(StatesOf(t)) >= 2
           /\ Idx(MSP.n_Markov_states.list, t) = Len(StatesOf(t))
           /\ MatchedSample(i, t) = <<1>>
           /\ MatchedIndex(i, t) = 0

\* the number of Markov states of every stage is the stored n_Markov_states
StatesCounted ==
    \A t \in 0..(MSP.T - 1) :
        Idx(MSP.n_Markov_states.list, t) = Len(StatesOf(t))

\* C11: after the matcher has returned, whenever the simulated value of a
\* path at a stage t >= 1 equals Markov_states[t][k], the matched index of
\* the path at that stage is k, for every k below n_Markov_states[t] and
\* every state set discretize accepts; and matching the same trajectories
\* against the same state set twice gives the same indices.
C11_ExactMatchIsItsIndex ==
    /\ [](ReturnedFrom("_compute_sample_path_idx_and_markovian_path") =>
            \A i \in 1..Len(Val(ev.markovian_idx)) : \A t \in 1..(MSP.T - 1) :
                \A k \in 0..(Idx(MSP.n_Markov_states.list, t) - 1) :
                    (k < Len(StatesOf(t))
                       /\ MatchedSample(i, t) = Idx(StatesOf(t), k))
                      => MatchedIndex(i, t) = k)
    /\ [][ (/\ call.op = "_compute_sample_path_idx_and_markovian_path"
            /\ call.raised = ""
            /\ call'.op = "_compute_sample_path_idx_and_markovian_path"
            /\ call'.raised = ""
            /\ ev'.markovian_samples = ev.markovian_samples)
             => ev'.markovian_idx = ev.markovian_idx ]_vars

\* a simulated value equal to a state that repeats an earlier state of its
\* stage is matched to the earlier one, the stored counts being right
C11_RepeatedState ==
    /\ ReturnedFrom("_compute_sample_path_idx_and_markovian_path")
    /\ StatesCounted
    /\ \E i \in 1..Len(Val(ev.markovian_idx)) : \E t \in 1..(MSP.T - 1) :
           /\ Len(StatesOf(t)) >= 2
           /\ MatchedSample(i, t) = Idx(StatesOf(t), 1)
           /\ MatchedIndex(i, t) = 0

(***************************************************************************)
(* The steps of a run: the parent sets the run up and starts the workers   *)
(* (or works through all the jobs itself), every worker seeds its random   *)
(* source and takes its jobs one solver call at a time, writing the policy *)
(* value of job j to cell j of the array, and the parent, once every       *)
(* worker has ended, reads the array and computes the statistics.          *)
(* ret holds the run in progress: pc, the arguments, the array pv, the     *)
(* number of writes to each cell, the workers, the number of solver calls, *)
(* whether a solver call failed, and the shares and seeds of the run       *)
(* before.                                                                 *)
(***************************************************************************)
\* the first component of the seed, 2**32-1
FixedSeed == "2**32-1"

\* a seed taken from the size of the share
run_single_seed_by_size(jobs) == << FixedSeed, Len(jobs) >>

\* run_single, line 192: the seed of the random source
run_single_seed(jobs) == << FixedSeed, jobs[1] >>

\* a process (or the parent itself) about to call run_single on its share
Worker(jobs) == [jobs |-> jobs, k |-> 0, status |-> "started", seed |-> None]

\* no run in progress
Idle(previous) ==
    [ pc |-> "idle", args |-> None, pv |-> <<>>, written |-> <<>>,
      procs |-> <<>>, forward |-> 0, failed |-> FALSE, previous |-> previous ]

\* the percentiles a caller may ask for: one inside and one outside (0,100)
Percentiles == {95, 100}

RunStepArguments ==
    { [ n_simulations |-> n, percentile |-> pc, query |-> None,
        query_dual |-> None, query_stage_cost |-> FALSE, n_processes |-> k ] :
        n \in {-1} \cup 0..MaxSimulations, pc \in Percentiles,
        k \in 1..MaxProcesses }

\* the shares and seeds of the workers of the latest run that had workers
SharesAndSeeds(state) ==
    IF Len(state.procs) = 0 THEN state.previous
    ELSE [p \in 1..Len(state.procs) |->
             [jobs |-> state.procs[p].jobs, seed |-> state.procs[p].seed]]

\* _Evaluation.run, lines 129 to 166 and 172 to 173: the guard, the set-up
\* of the object and the start of the workers
run_start(self, program, args, previous) ==
    IF unsupported_combination(args)
      THEN [obj |-> self, raised |-> "NotImplementedError", run |-> Idle(previous)]
    ELSE LET c == _compute_sample_path_idx_and_markovian_path(
                      [self EXCEPT !.n_simulations = Some(args.n_simulations)],
                      program, [generated |-> <<>>, uninitialized |-> 0])
         IN  IF c.raised # ""
               THEN [obj |-> c.obj, raised |-> c.raised, run |-> Idle(previous)]
             ELSE IF Val(c.obj.n_sample_paths) < 0
               THEN [obj |-> c.obj, raised |-> "ValueError", run |-> Idle(previous)]
             ELSE LET n  == Val(c.obj.n_sample_paths)
                      s1 == [c.obj EXCEPT
                               !.pv = Some([j \in 1..n |-> 0]),
                               !.stage_cost = Some(Matrix(program.T, n, "zero")),
                               !.solution = Some(<<>>),
                               !.solution_dual = Some(<<>>),
                               !.query = <<>>,
                               !.query_dual = <<>>,
                               !.query_stage_cost = args.query_stage_cost]
                      jobs == IF args.n_processes # 1
                                THEN allocate_jobs(n, args.n_processes)
                                ELSE << range(n) >>
                  IN  [obj |-> s1, raised |-> "",
                       run |-> [ pc |-> "simulating", args |-> Some(args),
                                 pv |-> [j \in 1..n |-> 0],
                                 written |-> [j \in 1..n |-> 0],
                                 procs |-> [p \in 1..Len(jobs) |-> Worker(jobs[p])],
                                 forward |-> 0, failed |-> FALSE,
                                 previous |-> previous ]]

\* _Evaluation.run_single, one step of a worker: the seeding, which reads
\* jobs[0], or the solver call of its next job and the write of pv[j]
run_single_step(self, program, state, p, value, fails) ==
    LET proc == state.procs[p]
    IN  IF proc.status = "started"
          THEN IF Len(proc.jobs) = 0
                 THEN [obj |-> self,
                       run |-> [state EXCEPT !.procs[p].status = "IndexError"]]
                 ELSE [obj |-> self,
                       run |-> [state EXCEPT
                                  !.procs[p].status =
                                      "running",
                                  !.procs[p].seed =
                                      Some(run_single_seed(proc.jobs))]]
        ELSE LET j == proc.jobs[proc.k + 1]
                 w == run_single_loop(self, program, state.pv, << j >>, 1,
                          [draws |-> [i \in 1..Len(state.pv) |-> value],
                           fail |-> IF fails THEN j + 1 ELSE 0], 0)
             IN  [obj |-> w.obj,
                  run |-> [state EXCEPT
                     !.pv = w.pv,
                     !.written[j + 1] = IF w.raised = "" THEN @ + 1 ELSE @,
                     !.forward = @ + w.forward,
                     !.failed = @ \/ w.raised = "SolverError",
                     !.procs[p].k = IF w.raised = "" THEN @ + 1 ELSE @,
                     !.procs[p].status =
                         IF w.raised # "" THEN w.raised
                         ELSE IF proc.k + 1 = Len(proc.jobs) THEN "exited"
                         ELSE "running"]]

\* _Evaluation.run, lines 167 to 185, once the workers have ended: an
\* exception of run_single in the parent ends the run, one in a process
\* ends that process; then the array is read and the statistics computed
run_finish(self, program, state) ==
    LET args == Val(state.args)
        s1   == [self EXCEPT !.pv = Some(state.pv)]
    IN  IF args.n_processes # 1
          THEN run_aggregate(s1, program, args, Some(state.pv), state.forward)
        ELSE IF state.procs[1].status # "exited"
          THEN RunResult(s1, state.procs[1].status, TRUE, state.forward)
        ELSE run_aggregate(s1, program, args, None, state.forward)

\* the programs whose runs are followed step by step
SteppedPrograms ==
    { Solved(MSLP(MinT, 1, Stages(MinT, MaxSamples), "given"), 4) }

InitRun ==
    /\ MSP \in SteppedPrograms
    /\ ev = _Evaluation("Evaluation", MSP)
    /\ call = Call("_Evaluation", None, "", FALSE)
    /\ ret = Idle(<<>>)

RunStart ==
    /\ ret.pc = "idle"
    /\ \E args \in RunStepArguments :
           LET r == run_start(ev, MSP, args, SharesAndSeeds(ret))
           IN  /\ ev' = r.obj
               /\ call' = RunCall(args, [fail |-> 0], r.raised)
               /\ ret' = r.run
               /\ UNCHANGED MSP

WorkerStep ==
    /\ ret.pc = "simulating"
    /\ \E p \in 1..Len(ret.procs) :
           /\ ret.procs[p].status \in {"started", "running"}
           /\ \E value \in DrawnValues, fails \in BOOLEAN :
                  LET r == run_single_step(ev, MSP, ret, p, value, fails)
                  IN  /\ ret' = r.run
                      /\ ev' = IF Val(ret.args).n_processes # 1 THEN ev ELSE r.obj
                      /\ UNCHANGED <<MSP, call>>

RunFinish ==
    /\ ret.pc = "simulating"
    /\ \A p \in 1..Len(ret.procs) : ret.procs[p].status \notin {"started", "running"}
    /\ LET r == run_finish(ev, MSP, ret)
       IN  /\ ev' = r.obj
           /\ call' = [call EXCEPT !.raised = r.raised,
                                   !.arg.solver_failed = ret.failed]
           /\ ret' = [ret EXCEPT !.pc = "idle"]
           /\ UNCHANGED MSP

NextRun ==
    \/ RunStart
    \/ WorkerStep
    \/ RunFinish

SpecRun == InitRun /\ [][NextRun]_vars

(***************************************************************************)
(* Runs on a discretized Markovian program (specification SpecTrue): the   *)
(* program is discretized, solved, and an evaluation object of either      *)
(* class is constructed on it and run.                                     *)
(***************************************************************************)
\* EvaluationTrue.run: for a program that is not an MSIP both branches end
\* in _Evaluation.run on the same object, the method Evaluation inherits
EvaluationTrue_run(self, program, args, env) == run(self, program, args, env)

\* a program whose probability model was reset
run_program_reset(program, args) ==
    [program EXCEPT !._flag_discrete = 0, !.n_Markov_states = ScalarOne]

\* the program after run: with MSP.n_periodical_stages None, line 135 is
\* not reached, and run assigns no other attribute of the program
run_program(program, args) == program

\* the sample counts of the calls of MSP.Markovian_uncertainty in a run of
\* n simulations: self.random_state is read before the call
generator_calls(self, program, n) ==
    IF self.cls = "EvaluationTrue" /\ program._type = "Markovian"
         /\ ~IsNone(self.random_state)
      THEN << n >>
      ELSE << >>

RunTrueArguments ==
    { [ n_simulations |-> n, percentile |-> 95, query |-> None,
        query_dual |-> None, query_stage_cost |-> FALSE, n_processes |-> 1 ] :
        n \in 1..MaxSimulations }

InitTrue ==
    /\ MSP \in { p \in MarkovianPrograms : p.T = MinT }
    /\ ev = _Evaluation("EvaluationTrue", MSP)
    /\ call = Call("MSLP", None, "", FALSE)
    /\ ret = None

\* the discretized program is solved and an evaluation object constructed
Construct ==
    /\ MSP._flag_discrete = 1
    /\ \E cls \in {"Evaluation", "EvaluationTrue"} :
           /\ MSP' = Solved(MSP, 4)
           /\ ev' = _Evaluation(cls, MSP')
           /\ call' = Call(cls, None, "", FALSE)
           /\ ret' = None

\* discretize, called before the program is solved
DiscretizeFirst == IsNone(ev.db) /\ CallDiscretize

\* the caller gives the object the attribute that line 249 reads
AssignRandomState ==
    /\ ev.cls = "EvaluationTrue"
    /\ ~IsNone(ev.db)
    /\ IsNone(ev.random_state)
    /\ ev' = [ev EXCEPT !.random_state = Some("RandomState")]
    /\ call' = Call("random_state", None, "", FALSE)
    /\ ret' = None
    /\ UNCHANGED MSP

\* ev.run(n) on an object of either class
CallRunTrue ==
    /\ ~IsNone(ev.db)
    /\ MSP._flag_discrete = 1
    /\ \E args \in RunTrueArguments :
       \E generated \in Trajectories(args.n_simulations, MSP.T) :
       \E value \in DrawnValues :
       \E uninitialized \in UninitializedValues :
           LET env == [ draws |-> [j \in 1..args.n_simulations |-> value],
                        fail |-> 0, generated |-> generated,
                        uninitialized |-> uninitialized ]
               r == EvaluationTrue_run(ev, MSP, args, env)
           IN  /\ ev' = r.obj
               /\ call' = RunCall(args, env, r.raised)
               /\ ret' = [ built |-> r.built, forward |-> r.forward,
                           generated_with |->
                               generator_calls(ev, MSP, args.n_simulations) ]
               /\ MSP' = run_program(MSP, args)

NextTrue ==
    \/ DiscretizeFirst
    \/ Construct
    \/ AssignRandomState
    \/ CallRunTrue

SpecTrue == InitTrue /\ [][NextTrue]_vars

\* C19: EvaluationTrue.run with n_simulations = n >= 1 on a discretized
\* Markovian process calls the generator exactly once, with sample count
\* n, and markovian_idx holds one index per path and per stage: 0 at stage
\* 0 and an index in 0..n_Markov_states[t]-1 at every stage t >= 1.
C19_OneIndexPerPathAndStage ==
    (/\ call.op = "run"
     /\ ev.cls = "EvaluationTrue"
     /\ call.arg.n_simulations >= 1) =>
        /\ ret.generated_with = << call.arg.n_simulations >>
        /\ ~IsNone(ev.markovian_idx)
        /\ Len(Val(ev.markovian_idx)) = call.arg.n_simulations
        /\ \A i \in 1..Len(Val(ev.markovian_idx)) :
               /\ Len(Val(ev.markovian_idx)[i]) = MSP.T
               /\ MatchedIndex(i, 0) = 0
               /\ \A t \in 1..(MSP.T - 1) :
                      MatchedIndex(i, t) \in
                          0..(Idx(MSP.n_Markov_states.list, t) - 1)

\* the same for the objects whose random_state the caller has assigned,
\* on programs whose stored counts are the numbers of their states
C19_WithRandomState ==
    (~IsNone(ev.random_state) /\ ~IsNone(MSP.Markov_states) /\ StatesCounted)
        => C19_OneIndexPerPathAndStage

CountArguments(T) ==
    {None}
    \cup { Some([scalar |-> k]) : k \in 0..MaxSamples }
    \cup { Some(ListOf(q)) : q \in { Stages(T - 1, 1), Stages(T, 1), Stages(T, 2),
                                      [t \in 1..T |-> 2] } }

\* the chains a caller may give: a well formed one, and one with two
\* states in stage 0
GivenChains(T) ==
    { [Markov_states |-> ChainStates(nm, 1),
       transition_matrix |-> ChainTransitions(nm, "uniform")] :
         nm \in { Stages(T, MaxMarkov), [t \in 1..T |-> 2] } }

DiscretizeMethods == {"SA", "input", "other"}

InitDiscretize ==
    /\ MSP \in { MSLP(MinT, 1, [t \in 1..MinT |-> IF t = 1 THEN first ELSE 1],
                        "none") : first \in 1..2 }
    /\ ev = None
    /\ call = Call("MSLP", None, "", FALSE)
    /\ ret = None

\* MSP.discretize(n_samples=..., n_Markov_states=..., method=...,
\* Markov_states=..., transition_matrix=...)
CallDiscretizeCounts ==
    \E n_samples \in CountArguments(MSP.T) :
    \E n_Markov_states \in CountArguments(MSP.T) :
    \E method \in DiscretizeMethods :
    \E a \in IF method = "input" /\ ~IsNone(n_Markov_states)
               THEN GivenChains(MSP.T)
               ELSE { [Markov_states |-> <<>>, transition_matrix |-> <<>>] } :
        LET r == discretize(MSP, n_samples, n_Markov_states, method,
                            a.Markov_states, a.transition_matrix)
        IN  /\ MSP' = r.obj
            /\ call' = Call("discretize",
                            [ n_samples |-> n_samples,
                              n_Markov_states |-> n_Markov_states,
                              method |-> method ],
                            r.raised, call.added)
            /\ ret' = [before |-> MSP.models.n_samples]
            /\ UNCHANGED ev

NextDiscretize ==
    \/ CallAddMarkovian
    \/ CallDiscretizeCounts

SpecDiscretize == InitDiscretize /\ [][NextDiscretize]_vars

\* an argument discretize is to reject: an integer below 1, a sequence
\* whose length is not T, a sequence whose first entry is not 1
InvalidCounts(x, T) ==
    /\ ~IsNone(x)
    /\ IF IsOne(Val(x)) THEN Val(x).scalar < 1
       ELSE Len(Val(x).list) # T \/ Val(x).list[1] # 1

\* [1, n, ..., n] for an integer n, the sequence itself otherwise
ExpandedCounts(x, T) ==
    IF IsOne(Val(x)) THEN [t \in 1..T |-> IF t = 1 THEN 1 ELSE Val(x).scalar]
    ELSE Val(x).list

\* C21: discretize rejects with ValueError, for both n_samples and
\* n_Markov_states, an integer below 1, a sequence whose length is not T
\* and a sequence whose first entry is not 1; an integer n is expanded to
\* [1, n, ..., n]; so after every successful discretize the stage-0 model
\* has not been re-sampled and n_Markov_states[0] = 1.
C21_DiscretizeCounts ==
    call.op = "discretize" =>
        LET a == call.arg
            T == MSP.T
        IN  /\ InvalidCounts(a.n_samples, T) => call.raised = "ValueError"
            /\ (~InvalidCounts(a.n_samples, T)
                  /\ InvalidCounts(a.n_Markov_states, T))
                 => call.raised = "ValueError"
            /\ call.raised = "" =>
                 /\ MSP.models.n_samples[1] = ret.before[1]
                 /\ ~IsNone(a.n_samples) =>
                        \A t \in 2..T : MSP.models.n_samples[t]
                                          = ExpandedCounts(a.n_samples, T)[t]
                 /\ ~IsNone(a.n_Markov_states) =>
                        /\ ~IsOne(MSP.n_Markov_states)
                        /\ MSP.n_Markov_states.list[1] = 1
                        /\ a.method # "input" =>
                               MSP.n_Markov_states.list
                                 = ExpandedCounts(a.n_Markov_states, T)

\* a discretize with an integer for both counts has returned on a program
\* with two samples in stage 0
C21_Witness ==
    /\ call.op = "discretize"
    /\ call.raised = ""
    /\ ~IsNone(call.arg.n_samples)
    /\ IsOne(Val(call.arg.n_samples))
    /\ ~IsNone(call.arg.n_Markov_states)
    /\ IsOne(Val(call.arg.n_Markov_states))
    /\ Val(call.arg.n_Markov_states).scalar = 2
    /\ ret.before[1] = 2

\* C24: in every reachable state of an MSLP, _flag_discrete = 1 implies
\* that Markov_states and transition_matrix are defined for all T stages
\* and that n_Markov_states[t] is the number of Markov states of stage t;
\* so a discretize call with a method that is none of 'SA', 'SAA', 'RSA',
\* 'input' does not mark the model as discretized.
C24_DiscretizedHasItsChain ==
    MSP._flag_discrete = 1 =>
        /\ ~IsNone(MSP.Markov_states)
        /\ ~IsNone(MSP.transition_matrix)
        /\ Len(Val(MSP.Markov_states)) = MSP.T
        /\ Len(Val(MSP.transition_matrix)) = MSP.T
        /\ ~IsOne(MSP.n_Markov_states)
        /\ \A t \in 1..MSP.T :
               MSP.n_Markov_states.list[t] = Len(Val(MSP.Markov_states)[t])

(***************************************************************************)
(* Runs of both classes on a discrete finite model (specification          *)
(* SpecFinite): the programs of Spec, under an object of either class.     *)
(***************************************************************************)
\* the arguments of run without per-path queries
FiniteRunArguments ==
    { a \in RunArguments : IsNone(a.query) /\ ~a.query_stage_cost }

InitFinite ==
    /\ MSP \in EvaluatedPrograms
    /\ \E cls \in {"Evaluation", "EvaluationTrue"} : ev = _Evaluation(cls, MSP)
    /\ call = Call("_Evaluation", None, "", FALSE)
    /\ ret = None

\* ev.run(...) on an object of either class
CallRunFinite ==
    \E args \in FiniteRunArguments : \E env \in Environments(ev, args) :
        LET r == EvaluationTrue_run(ev, MSP, args, env)
        IN  /\ ev' = r.obj
            /\ call' = RunCall(args, env, r.raised)
            /\ ret' = [built |-> r.built, forward |-> r.forward]
            /\ MSP' = run_program(MSP, args)

NextFinite == CallRunFinite

SpecFinite == InitFinite /\ [][NextFinite]_vars

\* the set of sample paths of the latest run is the one of Evaluation's
\* rule, and the solver was called with solve_true = False
EvaluationRule ==
    /\ ev.solve_true = FALSE
    /\ IF call.arg.n_simulations = -1
         THEN LET e == _enumerate_sample_paths(MSP, MSP.T - 1)
              IN  /\ ev.n_sample_paths = Some(e.n_sample_paths)
                  /\ ev.sample_path_idx = Some(e.sample_paths)
         ELSE ev.n_sample_paths = Some(call.arg.n_simulations)

\* C22: EvaluationTrue.run on a discrete finite model (stage-wise
\* independent or Markov chain, individual type original, not binarized)
\* behaves as Evaluation.run: the sample paths are those of Evaluation's
\* rule (the enumeration for n_simulations = -1, n_simulations paths
\* otherwise) and the solver is called with solve_true = False.
C22_TrueRunsAsEvaluation ==
    (/\ call.op = "run"
     /\ ev.cls = "EvaluationTrue"
     /\ MSP._type \in {"stage-wise independent", "Markov chain"}
     /\ MSP._individual_type = "original") => EvaluationRule

\* the same for the objects of class Evaluation
C22_EvaluationRuns ==
    (call.op = "run" /\ ev.cls = "Evaluation") => EvaluationRule

(***************************************************************************)
(* The weight of a path and of its nodes (specification SpecWeights).      *)
(***************************************************************************)
\* the first k stages of a sample path
PathPrefix(self, sample_path, k) ==
    IF IsOne(self.n_Markov_states) THEN Prefix(sample_path, k)
    ELSE << Prefix(Idx(sample_path, 0), k), Prefix(Idx(sample_path, 1), k) >>

\* the weight of a full sample path, and the weights of the last nodes of
\* its prefixes
CallPathWeights ==
    LET r == _enumerate_sample_paths(MSP, MSP.T - 1)
    IN  /\ r.raised = ""
        /\ \E j \in 1..Len(r.sample_paths) :
               LET path == r.sample_paths[j]
               IN  /\ call' = Call("_compute_current_weight_sample_path", path,
                                   "", call.added)
                   /\ ret' = [ weight |-> _compute_weight_sample_path(MSP, path),
                               current |-> [k \in 1..MSP.T |->
                                   _compute_current_weight_sample_path(MSP,
                                       PathPrefix(MSP, path, k))] ]
        /\ UNCHANGED <<MSP, ev>>

NextWeights ==
    \/ CallAddMC
    \/ CallCheckMultistage
    \/ CallPathWeights

SpecWeights == InitModel /\ [][NextWeights]_vars

\* C23: for every full sample path the weight of the path is the product,
\* over all non-empty prefixes of the path, of the conditional weights of
\* the prefixes, for independent and for Markov chain models; the
\* conditional weight of the stage-0 prefix has transition factor 1.
C23_WeightIsProductOfConditionals ==
    call.op = "_compute_current_weight_sample_path" =>
        /\ ret.weight = RProd(ret.current)
        /\ IsMarkovModel =>
               ret.current[1] =
                   Idx(Idx(Idx(_set_up_probability(MSP), 0),
                           Idx(Idx(call.arg, 1), 0)),
                       Idx(Idx(call.arg, 0), 0))

\* the weights of a path through the second state of the last stage of
\* the chain of the specification's example
C23_Witness ==
    /\ call.op = "_compute_current_weight_sample_path"
    /\ IsSpecExample
    /\ ret.weight = Rat(56, 100)
    /\ ret.current = << RInt(1), Rat(7, 10), Rat(8, 10) >>

(***************************************************************************)
(* Enumeration before discretization (specification SpecModel).            *)
(***************************************************************************)
\* C18: exhaustive enumeration (_enumerate_sample_paths) on a Markovian
\* process that has not been discretized (_type = 'Markovian',
\* _flag_discrete = 0) fails with an error and returns no paths.
C18_EnumerationNeedsDiscretization ==
    (/\ call.op = "_enumerate_sample_paths"
     /\ MSP._type = "Markovian"
     /\ MSP._flag_discrete = 0) =>
        /\ call.raised # ""
        /\ ret.sample_paths = <<>>

(***************************************************************************)
(* Claims about sequences of runs on one object (specification Spec).      *)
(***************************************************************************)
\* C15: in every run of Evaluation in random mode (n_simulations other
\* than -1) on an independent or Markov chain process, the solver calls
\* receive no outcome indices: sample_path_idx is None whenever such a run
\* has called the solver, whatever runs came before it on the object.
C15_RandomRunDrawsInSolver ==
    (/\ call.op = "run"
     /\ call.arg.n_simulations # -1
     /\ ret.forward > 0) => IsNone(ev.sample_path_idx)

\* C25: after any sequence of run calls on one Evaluation object, when
\* the latest run has returned, the aggregates come from that run only:
\* epv is set only if it was exhaustive (n_simulations = -1), CI only if it
\* had n_simulations other than -1 and 1, and the gap is computed from the
\* CI, the epv or the pv[0] that run produced.
C25_AggregatesOfLatestRun ==
    ReturnedFrom("run") =>
        LET n == call.arg.n_simulations
        IN  /\ ~IsNone(ev.epv) => n = -1
            /\ ~IsNone(ev.CI) => n \notin {-1, 1}
            /\ (Val(ev.db).n # 0 /\ Val(ev.gap).kind # "str") =>
                   GapValue =
                       IF n = -1 THEN GapFrom(Val(ev.epv))
                       ELSE IF n = 1 THEN GapFrom(RInt(Val(ev.pv)[1]))
                       ELSE IF MSP.sense = 1 THEN GapFrom(Val(ev.CI)[2])
                       ELSE GapFrom(Val(ev.CI)[1])

\* the same for the first run on an object
C25_FirstRun ==
    [][ (call.op = "_Evaluation" /\ call'.op = "run" /\ call'.raised = "")
          => C25_AggregatesOfLatestRun' ]_vars

\* the cells of a matrix of per-stage and per-path results
Cells(m) == UNION { ToSet(m[t]) : t \in DOMAIN m }

\* C17: after run has returned, every cell of a matrix of queried solutions, of queried
\* duals and of the stage costs that was not filled from a solver result
\* is marked not available (NaN), never zero.
C17_UnfilledCellsAreNaN ==
    (ReturnedFrom("run") /\ ~IsNone(ev.stage_cost)) =>
        /\ Cells(Val(ev.stage_cost)) \subseteq {"solver", "nan"}
        /\ \A item \in DOMAIN Val(ev.solution) :
               Cells(Val(ev.solution)[item]) \subseteq {"solver", "nan"}
        /\ \A item \in DOMAIN Val(ev.solution_dual) :
               Cells(Val(ev.solution_dual)[item]) \subseteq {"solver", "nan"}

\* the same for the matrices of the queried solutions and duals alone
C17_QueriedCellsAreNaN ==
    (ReturnedFrom("run") /\ ~IsNone(ev.solution)) =>
        /\ \A item \in DOMAIN Val(ev.solution) :
               Cells(Val(ev.solution)[item]) \subseteq {"solver", "nan"}
        /\ \A item \in DOMAIN Val(ev.solution_dual) :
               Cells(Val(ev.solution_dual)[item]) \subseteq {"solver", "nan"}

(***************************************************************************)
(* Claims about the steps of a run (specification SpecRun).                *)
(***************************************************************************)
\* a run that started workers has ended
RunEnded == ret.pc = "idle" /\ Len(ret.procs) > 0

IsParallel == Val(ret.args).n_processes # 1

ShareOf(p) == ToSet(ret.procs[p].jobs)

\* C12: in a parallel run over n sample paths the shares of the workers are
\* pairwise disjoint and together cover 0..n-1, no cell of the array is
\* written twice, the parent holds its zeros until every worker has ended,
\* and when the run has returned every cell pv[j] has been written exactly
\* once and the parent has read the whole array.
C12_EveryCellWrittenOnce ==
    (~IsNone(ret.args) /\ IsParallel) =>
        /\ \A p, q \in 1..Len(ret.procs) :
               p # q => ShareOf(p) \cap ShareOf(q) = {}
        /\ UNION { ShareOf(p) : p \in 1..Len(ret.procs) }
               = 0..(Len(ret.pv) - 1)
        /\ \A j \in 1..Len(ret.pv) : ret.written[j] <= 1
        /\ ret.pc = "simulating" => Val(ev.pv) = [j \in 1..Len(ret.pv) |-> 0]
        /\ (RunEnded /\ call.raised = "") =>
               /\ \A j \in 1..Len(ret.pv) : ret.written[j] = 1
               /\ ev.pv = Some(ret.pv)

\* the same, for the runs in which no solver call failed
C12_WithoutFailure == ret.failed \/ C12_EveryCellWrittenOnce

\* C13: when a solver call has failed inside a worker of a parallel run,
\* the run does not return normally: it raises, and so reports nothing
\* computed from the partly filled array.
C13_WorkerFailureIsFatal ==
    (RunEnded /\ IsParallel /\ ret.failed) => call.raised # ""

\* C14: a run with a percentile outside the open interval (0,100) makes no
\* solver call and ends with an error.
C14_PercentileCheckedFirst ==
    (~IsNone(ret.args)
       /\ (Val(ret.args).percentile <= 0 \/ Val(ret.args).percentile >= 100)) =>
        /\ ret.forward = 0
        /\ RunEnded => call.raised # ""

\* C26: run_single given an empty share of path indices (a worker of a
\* parallel run with more processes than paths, or the sequential run over
\* zero paths) calls the solver zero times, writes no result cell and
\* returns normally.
C26_EmptyShareReturns ==
    \A p \in 1..Len(ret.procs) :
        (Len(ret.procs[p].jobs) = 0 /\ ret.procs[p].status # "started") =>
            /\ ret.procs[p].status = "exited"
            /\ ret.procs[p].k = 0
            /\ Len(ret.procs) = 1 => (ret.forward = 0 /\ Len(ret.written) = 0)

\* a call of run_single with an empty share calls the solver zero times
\* and writes no cell
C26_EmptyShareIdle ==
    \A p \in 1..Len(ret.procs) :
        Len(ret.procs[p].jobs) = 0 =>
            /\ ret.procs[p].k = 0
            /\ Len(ret.procs) = 1 => (ret.forward = 0 /\ Len(ret.written) = 0)

====
